---------------------------- MODULE Spec2Model ----------------------------
(***************************************************************************)
(* Bond Investment & USD/INR Hedging Dashboard (src/app.py).               *)
(*                                                                         *)
(* The dashboard is a Streamlit script: every change of an input widget    *)
(* re-runs the script from top to bottom.  One run reads the widgets,      *)
(* computes the bond return and the hedge (lines 156-183), evaluates the   *)
(* scenario sweep (186-210), the practical example (225-231) and the       *)
(* specific-rate table (441-456).                                          *)
(*                                                                         *)
(* Arithmetic.  The program computes with Python floats.  The model        *)
(* computes the same formulas over exact rational numbers (arbitrary       *)
(* precision, built below on sequences of base-10000 limbs), i.e. the      *)
(* real-number meaning of every formula; the rounding of IEEE doubles      *)
(* (errors of the order of 1e-16 relative) is not modelled.                *)
(***************************************************************************)
EXTENDS Integers, Sequences, FiniteSets, TLC

(***************************************************************************)
(* Arbitrary-precision naturals: little-endian sequences of limbs in       *)
(* 0..Base-1 without leading zero limbs; zero is the empty sequence.       *)
(***************************************************************************)
Base == 10000

\* The element of a singleton set.  An intermediate result e is named by
\* Only({ f(v) : v \in {e} }): e is computed once and v stands for its value.
Only(S) == CHOOSE v \in S : TRUE

Limb(x, i) == IF i <= Len(x) THEN x[i] ELSE 0

\* the operators on limb ranges split the range in halves, so that the depth
\* of the recursion is logarithmic in the number of limbs
RECURSIVE LastNonZero(_, _, _)
LastNonZero(x, lo, hi) ==
    IF lo = hi THEN (IF x[lo] # 0 THEN lo ELSE 0)
    ELSE Only({IF h # 0 THEN h ELSE LastNonZero(x, lo, (lo + hi) \div 2) :
                 h \in {LastNonZero(x, ((lo + hi) \div 2) + 1, hi)}})

NNorm(x) ==
    IF x = <<>> THEN <<>> ELSE SubSeq(x, 1, LastNonZero(x, 1, Len(x)))

RECURSIVE NFromInt(_)
NFromInt(k) ==
    IF k = 0 THEN <<>> ELSE <<k % Base>> \o NFromInt(k \div Base)

RECURSIVE NToInt(_)
NToInt(x) ==
    IF x = <<>> THEN 0 ELSE Head(x) + Base * NToInt(Tail(x))

\* <<limb, carry>> of a column sum s
Column(s) == <<(<<s % Base>>), s \div Base>>

\* limbs lo..hi of x + y + c and the carry out
RECURSIVE AddRange(_, _, _, _, _)
AddRange(x, y, lo, hi, c) ==
    IF lo = hi
    THEN Column(Limb(x, lo) + Limb(y, lo) + c)
    ELSE Only({Only({<<L[1] \o H[1], H[2]>> :
                       H \in {AddRange(x, y, ((lo + hi) \div 2) + 1, hi, L[2])}}) :
                 L \in {AddRange(x, y, lo, (lo + hi) \div 2, c)}})

NAdd(x, y) ==
    IF x = <<>> THEN y
    ELSE IF y = <<>> THEN x
    ELSE Only({IF r[2] = 0 THEN r[1] ELSE Append(r[1], r[2]) :
                 r \in {AddRange(x, y, 1, IF Len(x) > Len(y) THEN Len(x) ELSE Len(y), 0)}})

\* <<limb, borrow>> of a column difference s
ColumnDiff(s) == <<(<<IF s < 0 THEN s + Base ELSE s>>), IF s < 0 THEN 1 ELSE 0>>

\* limbs lo..hi of x - y - b and the borrow out
RECURSIVE SubRange(_, _, _, _, _)
SubRange(x, y, lo, hi, b) ==
    IF lo = hi
    THEN ColumnDiff(Limb(x, lo) - Limb(y, lo) - b)
    ELSE Only({Only({<<L[1] \o H[1], H[2]>> :
                       H \in {SubRange(x, y, ((lo + hi) \div 2) + 1, hi, L[2])}}) :
                 L \in {SubRange(x, y, lo, (lo + hi) \div 2, b)}})

\* x - y for x >= y
NSub(x, y) ==
    IF x = <<>> THEN <<>>
    ELSE Only({NNorm(r[1]) : r \in {SubRange(x, y, 1, Len(x), 0)}})

\* limbs lo..hi of x * d + c and the carry out, for one limb d
RECURSIVE MulSmallRange(_, _, _, _, _)
MulSmallRange(x, d, lo, hi, c) ==
    IF lo = hi
    THEN Column(x[lo] * d + c)
    ELSE Only({Only({<<L[1] \o H[1], H[2]>> :
                       H \in {MulSmallRange(x, d, ((lo + hi) \div 2) + 1, hi, L[2])}}) :
                 L \in {MulSmallRange(x, d, lo, (lo + hi) \div 2, c)}})

NMulSmall(x, d) ==
    IF x = <<>> \/ d = 0 THEN <<>>
    ELSE Only({IF r[2] = 0 THEN r[1] ELSE Append(r[1], r[2]) :
                 r \in {MulSmallRange(x, d, 1, Len(x), 0)}})

NShift(x, k) == IF x = <<>> THEN <<>> ELSE [i \in 1..k |-> 0] \o x

\* x times the limbs lo..hi of y
RECURSIVE MulRange(_, _, _, _)
MulRange(x, y, lo, hi) ==
    IF lo = hi THEN NMulSmall(x, y[lo])
    ELSE Only({NAdd(a, NShift(b, ((lo + hi) \div 2) - lo + 1)) :
                 a \in {MulRange(x, y, lo, (lo + hi) \div 2)},
                 b \in {MulRange(x, y, ((lo + hi) \div 2) + 1, hi)}})

NMul(x, y) ==
    IF x = <<>> \/ y = <<>> THEN <<>>
    ELSE IF Len(x) >= Len(y) THEN MulRange(x, y, 1, Len(y))
    ELSE MulRange(y, x, 1, Len(x))

RECURSIVE CmpRange(_, _, _, _)
CmpRange(x, y, lo, hi) ==
    IF lo = hi
    THEN (IF x[lo] < y[lo] THEN -1 ELSE IF x[lo] > y[lo] THEN 1 ELSE 0)
    ELSE Only({IF h # 0 THEN h ELSE CmpRange(x, y, lo, (lo + hi) \div 2) :
                 h \in {CmpRange(x, y, ((lo + hi) \div 2) + 1, hi)}})

\* -1, 0 or 1 as x < y, x = y, x > y
NCmp(x, y) ==
    IF Len(x) < Len(y) THEN -1
    ELSE IF Len(x) > Len(y) THEN 1
    ELSE IF x = <<>> THEN 0
    ELSE CmpRange(x, y, 1, Len(x))

RECURSIVE NPow(_, _)
NPow(x, k) ==
    IF k = 0 THEN <<1>>
    ELSE Only({IF k % 2 = 0 THEN hh ELSE NMul(hh, x) :
                 hh \in {NMul(h, h) : h \in {NPow(x, k \div 2)}}})

(***************************************************************************)
(* Exact rationals: [neg, num, den] with num, den naturals, den > 0, and   *)
(* neg = FALSE when num = 0.  Small values are kept in lowest terms, large *)
(* ones are not: values are compared with QCmp / QEq, never with = .       *)
(***************************************************************************)
RECURSIVE Gcd(_, _)
Gcd(a, b) == IF b = 0 THEN a ELSE Gcd(b, a % b)

Abs(a) == IF a < 0 THEN -a ELSE a

\* the rational a / b of two machine integers, b > 0, in lowest terms
QFrac(a, b) ==
    Only({[neg |-> a < 0, num |-> NFromInt(Abs(a) \div g), den |-> NFromInt(b \div g)] :
            g \in {Gcd(Abs(a), b)}})

QInt(a) == [neg |-> a < 0, num |-> NFromInt(Abs(a)), den |-> <<1>>]

\* lowest terms, for values whose numerator and denominator fit a machine integer
QRed(p) ==
    IF Len(p.num) <= 2 /\ Len(p.den) <= 2
    THEN Only({QFrac(IF p.neg THEN -a ELSE a, b) :
                 a \in {NToInt(p.num)}, b \in {NToInt(p.den)}})
    ELSE p

QNeg(p) == [neg |-> (p.num # <<>>) /\ ~p.neg, num |-> p.num, den |-> p.den]

\* pn * a/d + qn * b/d for signs pn, qn
SignedSum(pneg, a, qneg, b, d) ==
    IF pneg = qneg THEN [neg |-> pneg /\ (a # <<>> \/ b # <<>>), num |-> NAdd(a, b), den |-> d]
    ELSE Only({IF c = 0 THEN [neg |-> FALSE, num |-> <<>>, den |-> d]
               ELSE IF c > 0 THEN [neg |-> pneg, num |-> NSub(a, b), den |-> d]
               ELSE [neg |-> qneg, num |-> NSub(b, a), den |-> d] :
                 c \in {NCmp(a, b)}})

QSumV(p, q) ==
    IF p.den = q.den
    THEN SignedSum(p.neg, p.num, q.neg, q.num, p.den)
    ELSE Only({SignedSum(p.neg, a, q.neg, b, d) :
                 a \in {NMul(p.num, q.den)},
                 b \in {NMul(q.num, p.den)},
                 d \in {NMul(p.den, q.den)}})

QMulV(p, q) ==
    Only({[neg |-> (m # <<>>) /\ (p.neg # q.neg), num |-> m, den |-> d] :
            m \in {NMul(p.num, q.num)}, d \in {NMul(p.den, q.den)}})

\* the operators below name their arguments first, so that an argument which
\* is itself a computation is carried out once
QAdd(p0, q0) == Only({QRed(s) : s \in {QSumV(p, q) : p \in {p0}, q \in {q0}}})

QSub(p0, q0) == Only({QRed(s) : s \in {QSumV(p, QNeg(q)) : p \in {p0}, q \in {q0}}})

QMul(p0, q0) == Only({QRed(s) : s \in {QMulV(p, q) : p \in {p0}, q \in {q0}}})

\* p / q for q # 0
QDiv(p0, q0) ==
    Only({QRed(s) :
            s \in {QMulV(p, [neg |-> q.neg, num |-> q.den, den |-> q.num]) :
                     p \in {p0}, q \in {q0}}})

QPow(p0, k) ==
    Only({[neg |-> p.neg /\ (k % 2 = 1), num |-> NPow(p.num, k), den |-> NPow(p.den, k)] :
            p \in {p0}})

QSign(p) == IF p.num = <<>> THEN 0 ELSE IF p.neg THEN -1 ELSE 1

QCmp(p0, q0) == Only({QSign(s) : s \in {QSumV(p, QNeg(q)) : p \in {p0}, q \in {q0}}})

QEq(p, q) == QCmp(p, q) = 0
QLt(p, q) == QCmp(p, q) < 0
QLe(p, q) == QCmp(p, q) <= 0

\* math.ceil of a rational whose numerator and denominator fit a machine integer
QCeil(p0) ==
    Only({IF p.neg THEN -(NToInt(p.num) \div NToInt(p.den))
          ELSE -((-NToInt(p.num)) \div NToInt(p.den)) : p \in {p0}})

\* the one-decimal rounding of a / b, ties to even, in tenths
RoundTenths(a, b) ==
    IF 2 * ((10 * a) % b) > b
       \/ (2 * ((10 * a) % b) = b /\ ((10 * a) \div b) % 2 = 1)
    THEN ((10 * a) \div b) + 1
    ELSE (10 * a) \div b

\* round to one decimal, ties to even, as format(x, ".1f") does; the result is
\* the printed number (a rational with denominator 10)
QRound1(p0) ==
    Only({QFrac(IF p.neg THEN -RoundTenths(NToInt(p.num), NToInt(p.den))
                ELSE RoundTenths(NToInt(p.num), NToInt(p.den)), 10) :
            p \in {p0}})

(***************************************************************************)
(* Program constants.                                                      *)
(***************************************************************************)
USDINR_LOT_SIZE == 1000
DEFAULT_USDINR_RATE == QInt(85)
DEFAULT_MARGIN_PER_LOT == 2150
DEFAULT_HEDGING_COST_PCT == QFrac(5, 10)

compounding_freq_map ==
    [c \in {"Annually", "Semi-Annually", "Quarterly", "Monthly"} |->
        CASE c = "Annually" -> 1
          [] c = "Semi-Annually" -> 2
          [] c = "Quarterly" -> 4
          [] c = "Monthly" -> 12]

scenarios == <<-10, -5, 0, 5, 10>>
specific_rates == <<75, 85, 95>>

(***************************************************************************)
(* Bounds of the model: the values a user is taken to enter.  The tenure   *)
(* slider allows 1..10; the model explores 1..MaxTenure.                   *)
(***************************************************************************)
MaxTenure == 3

InvestmentChoices == {500, 1000, 93500, 1000000}
TenureChoices == 0..MaxTenure
YieldChoices == {QInt(0), QFrac(65, 10), QInt(10), QInt(21)}
CompoundingChoices == DOMAIN compounding_freq_map
RateChoices == {QInt(60), QInt(70), QInt(85), QInt(100)}
MarginChoices == {900, 1000, 2150}
HedgingCostChoices == {QInt(0), QFrac(5, 10), QInt(5), QInt(6)}

VARIABLES
    pc,                            \* position of the script run
    investment_inr, tenure_years, yield_percent, compounding,
    usdinr_rate, margin_per_lot, hedging_cost_pct,
    n, interest_earned, total_return_inr, investment_usd, num_lots,
    total_margin_inr, total_hedging_cost, actual_return_with_hedging,
    return_pct_without_hedging, return_pct_with_hedging,
    hedging_cost_pct_of_investment,
    scenario_data, df_scenarios,
    example_interest_inr, example_total_inr,
    specific_data

inputs == <<investment_inr, tenure_years, yield_percent, compounding,
            usdinr_rate, margin_per_lot, hedging_cost_pct>>
results == <<n, interest_earned, total_return_inr, investment_usd, num_lots,
             total_margin_inr, total_hedging_cost, actual_return_with_hedging,
             return_pct_without_hedging, return_pct_with_hedging,
             hedging_cost_pct_of_investment>>
tables == <<scenario_data, df_scenarios, example_interest_inr,
            example_total_inr, specific_data>>
vars == <<pc, inputs, results, tables>>

Zero == QInt(0)

\* a script run starts with none of its variables bound
Unbound ==
    /\ n = 0
    /\ interest_earned = Zero
    /\ total_return_inr = Zero
    /\ investment_usd = Zero
    /\ num_lots = 0
    /\ total_margin_inr = 0
    /\ total_hedging_cost = Zero
    /\ actual_return_with_hedging = Zero
    /\ return_pct_without_hedging = Zero
    /\ return_pct_with_hedging = Zero
    /\ hedging_cost_pct_of_investment = Zero
    /\ scenario_data = <<>>
    /\ df_scenarios = <<>>
    /\ example_interest_inr = Zero
    /\ example_total_inr = Zero
    /\ specific_data = <<>>

\* first run of the script: every widget holds its default value
Init ==
    /\ pc = "calculate"
    /\ investment_inr = 1000000
    /\ tenure_years = 3
    /\ yield_percent = QFrac(65, 10)
    /\ compounding = "Annually"
    /\ usdinr_rate = DEFAULT_USDINR_RATE
    /\ margin_per_lot = DEFAULT_MARGIN_PER_LOT
    /\ hedging_cost_pct = DEFAULT_HEDGING_COST_PCT
    /\ Unbound

(***************************************************************************)
(* Widgets.  A changed widget value re-runs the script; the widget         *)
(* refuses a value outside its min_value / max_value.                      *)
(***************************************************************************)
Rerun ==
    /\ pc' = "calculate"
    /\ n' = 0
    /\ interest_earned' = Zero
    /\ total_return_inr' = Zero
    /\ investment_usd' = Zero
    /\ num_lots' = 0
    /\ total_margin_inr' = 0
    /\ total_hedging_cost' = Zero
    /\ actual_return_with_hedging' = Zero
    /\ return_pct_without_hedging' = Zero
    /\ return_pct_with_hedging' = Zero
    /\ hedging_cost_pct_of_investment' = Zero
    /\ scenario_data' = <<>>
    /\ df_scenarios' = <<>>
    /\ example_interest_inr' = Zero
    /\ example_total_inr' = Zero
    /\ specific_data' = <<>>

SetInvestment(v) ==
    /\ pc = "done"
    /\ v >= 1000
    /\ v # investment_inr
    /\ investment_inr' = v
    /\ UNCHANGED <<tenure_years, yield_percent, compounding, usdinr_rate,
                   margin_per_lot, hedging_cost_pct>>
    /\ Rerun

SetTenure(v) ==
    /\ pc = "done"
    /\ v >= 1 /\ v <= 10
    /\ v # tenure_years
    /\ tenure_years' = v
    /\ UNCHANGED <<investment_inr, yield_percent, compounding, usdinr_rate,
                   margin_per_lot, hedging_cost_pct>>
    /\ Rerun

SetYield(v) ==
    /\ pc = "done"
    /\ QLe(Zero, v) /\ QLe(v, QInt(20))
    /\ v # yield_percent
    /\ yield_percent' = v
    /\ UNCHANGED <<investment_inr, tenure_years, compounding, usdinr_rate,
                   margin_per_lot, hedging_cost_pct>>
    /\ Rerun

SetCompounding(v) ==
    /\ pc = "done"
    /\ v # compounding
    /\ compounding' = v
    /\ UNCHANGED <<investment_inr, tenure_years, yield_percent, usdinr_rate,
                   margin_per_lot, hedging_cost_pct>>
    /\ Rerun

SetRate(v) ==
    /\ pc = "done"
    /\ QLe(QInt(70), v) /\ QLe(v, QInt(100))
    /\ v # usdinr_rate
    /\ usdinr_rate' = v
    /\ UNCHANGED <<investment_inr, tenure_years, yield_percent, compounding,
                   margin_per_lot, hedging_cost_pct>>
    /\ Rerun

SetMargin(v) ==
    /\ pc = "done"
    /\ v >= 1000
    /\ v # margin_per_lot
    /\ margin_per_lot' = v
    /\ UNCHANGED <<investment_inr, tenure_years, yield_percent, compounding,
                   usdinr_rate, hedging_cost_pct>>
    /\ Rerun

SetHedgingCost(v) ==
    /\ pc = "done"
    /\ QLe(Zero, v) /\ QLe(v, QInt(5))
    /\ v # hedging_cost_pct
    /\ hedging_cost_pct' = v
    /\ UNCHANGED <<investment_inr, tenure_years, yield_percent, compounding,
                   usdinr_rate, margin_per_lot>>
    /\ Rerun

(***************************************************************************)
(* Return and hedge calculation.                                           *)
(***************************************************************************)
\* variant: the principal is not subtracted from the compounded value
CompoundInterest_gross(P, y, k, t) ==
    QMul(QInt(P),
         QPow(QAdd(QInt(1), QDiv(QDiv(y, QInt(100)), QInt(k))), k * t))

\* investment_inr * (1 + (yield_percent/100)/n)**(n*tenure_years) - investment_inr
CompoundInterest(P, y, k, t) ==
    QSub(QMul(QInt(P),
              QPow(QAdd(QInt(1), QDiv(QDiv(y, QInt(100)), QInt(k))), k * t)),
         QInt(P))

\* variant: annual interest is compounded once a year
SimpleInterest_compounded(P, y, t) == CompoundInterest(P, y, 1, t)

\* investment_inr * (yield_percent / 100) * tenure_years
SimpleInterest(P, y, t) ==
    QMul(QMul(QInt(P), QDiv(y, QInt(100))), QInt(t))

\* variant: the compound formula is applied to every frequency
InterestEarned_compound_always(P, y, c, t) ==
    CompoundInterest(P, y, compounding_freq_map[c], t)

InterestEarned(P, y, c, t) ==
    IF c = "Annually"
    THEN SimpleInterest(P, y, t)
    ELSE CompoundInterest(P, y, compounding_freq_map[c], t)

InvestmentUsd(P, rate) == QDiv(QInt(P), rate)

\* variant: int(x) + 1 in place of math.ceil(x)
NumLots_floor_plus_one(usd) ==
    LET q == QDiv(usd, QInt(USDINR_LOT_SIZE))
    IN  (NToInt(q.num) \div NToInt(q.den)) + 1

\* variant: math.floor in place of math.ceil
NumLots_floor(usd) ==
    LET q == QDiv(usd, QInt(USDINR_LOT_SIZE))
    IN  NToInt(q.num) \div NToInt(q.den)

NumLots(usd) == QCeil(QDiv(usd, QInt(USDINR_LOT_SIZE)))

TotalHedgingCost(usd, h, t, rate) ==
    QMul(QMul(QMul(usd, QDiv(h, QInt(100))), QInt(t)), rate)

\* variant: only the margin is deducted
ActualReturnWithHedging_margin_only(total, margin, cost) ==
    QSub(total, QInt(margin))

ActualReturnWithHedging(total, margin, cost) ==
    QSub(QSub(total, QInt(margin)), cost)

Calculate ==
    /\ pc = "calculate"
    /\ \E ie \in {InterestEarned(investment_inr, yield_percent, compounding, tenure_years)},
          usd \in {InvestmentUsd(investment_inr, usdinr_rate)} :
       \E total \in {QAdd(QInt(investment_inr), ie)},
          lots \in {NumLots(usd)},
          cost \in {TotalHedgingCost(usd, hedging_cost_pct, tenure_years, usdinr_rate)} :
       \E act \in {ActualReturnWithHedging(total, lots * margin_per_lot, cost)} :
          /\ n' = compounding_freq_map[compounding]
          /\ interest_earned' = ie
          /\ total_return_inr' = total
          /\ investment_usd' = usd
          /\ num_lots' = lots
          /\ total_margin_inr' = lots * margin_per_lot
          /\ total_hedging_cost' = cost
          /\ actual_return_with_hedging' = act
          /\ return_pct_without_hedging' =
                 QMul(QDiv(QSub(total, QInt(investment_inr)), QInt(investment_inr)),
                      QInt(100))
          /\ return_pct_with_hedging' =
                 QMul(QDiv(QSub(act, QInt(investment_inr)), QInt(investment_inr)),
                      QInt(100))
          /\ hedging_cost_pct_of_investment' =
                 QMul(QDiv(QAdd(QInt(lots * margin_per_lot), cost), QInt(investment_inr)),
                      QInt(100))
    /\ pc' = "scenarios"
    /\ UNCHANGED <<inputs, tables>>

(***************************************************************************)
(* Scenario analysis.                                                      *)
(***************************************************************************)
\* new_rate = usdinr_rate * (1 - inr_appreciation_pct/100)
NewRate(inr_appreciation_pct) ==
    QMul(usdinr_rate, QSub(QInt(1), QDiv(inr_appreciation_pct, QInt(100))))

\* variant: the hedged INR return is derived from the scenario's unhedged return
calculate_scenario_floating(inr_appreciation_pct) ==
    Only({Only({Only({[unhedged_inr |-> unhedged_return_inr,
                       hedged_inr   |-> hedged_return_inr,
                       unhedged_usd |-> QDiv(unhedged_return_inr, new_rate),
                       hedged_usd   |-> QDiv(hedged_return_inr, new_rate),
                       rate         |-> new_rate] :
                        hedged_return_inr \in
                            {QSub(QSub(unhedged_return_inr, QInt(total_margin_inr)),
                                  total_hedging_cost)}}) :
                  unhedged_return_inr \in
                      {QAdd(QMul(investment_usd, new_rate), interest_earned)}}) :
            new_rate \in {NewRate(inr_appreciation_pct)}})

\* variant: the converted principal is added to the whole maturity value
calculate_scenario_total(inr_appreciation_pct) ==
    Only({Only({[unhedged_inr |-> unhedged_return_inr,
                 hedged_inr   |-> actual_return_with_hedging,
                 unhedged_usd |-> QDiv(unhedged_return_inr, new_rate),
                 hedged_usd   |-> QDiv(actual_return_with_hedging, new_rate),
                 rate         |-> new_rate] :
                  unhedged_return_inr \in
                      {QAdd(QMul(investment_usd, new_rate), total_return_inr)}}) :
            new_rate \in {NewRate(inr_appreciation_pct)}})

calculate_scenario(inr_appreciation_pct) ==
    Only({Only({[unhedged_inr |-> unhedged_return_inr,
                 hedged_inr   |-> actual_return_with_hedging,
                 unhedged_usd |-> QDiv(unhedged_return_inr, new_rate),
                 hedged_usd   |-> QDiv(actual_return_with_hedging, new_rate),
                 rate         |-> new_rate] :
                  unhedged_return_inr \in
                      {QAdd(QMul(investment_usd, new_rate), interest_earned)}}) :
            new_rate \in {NewRate(inr_appreciation_pct)}})

SweepScenarios ==
    /\ pc = "scenarios"
    /\ \E data \in {[i \in DOMAIN scenarios |-> calculate_scenario(QInt(scenarios[i]))]} :
          /\ scenario_data' = data
          /\ df_scenarios' =
                 [i \in DOMAIN scenarios |->
                     [INR_Change          |-> scenarios[i],
                      Unhedged_Return_INR |-> data[i].unhedged_inr,
                      Hedged_Return_INR   |-> data[i].hedged_inr,
                      Unhedged_Return_USD |-> data[i].unhedged_usd,
                      Hedged_Return_USD   |-> data[i].hedged_usd,
                      FX_Rate             |-> data[i].rate]]
    /\ pc' = "example"
    /\ UNCHANGED <<inputs, results, example_interest_inr, example_total_inr,
                   specific_data>>

example_investment_inr == 85000
example_yield == 10

PracticalExample ==
    /\ pc = "example"
    /\ \E interest \in {QMul(QInt(example_investment_inr),
                              QDiv(QInt(example_yield), QInt(100)))} :
          /\ example_interest_inr' = interest
          /\ example_total_inr' = QAdd(QInt(example_investment_inr), interest)
    /\ pc' = "specific"
    /\ UNCHANGED <<inputs, results, scenario_data, df_scenarios, specific_data>>

\* scenario_pct = ((rate - usdinr_rate)/usdinr_rate)*100
ScenarioPct(rate) ==
    QMul(QDiv(QSub(QInt(rate), usdinr_rate), usdinr_rate), QInt(100))

\* variant: the rate change is passed to calculate_scenario without negation
SpecificRow_unnegated(rate) ==
    Only({Only({[USDINR_Rate     |-> rate,
                 INR_Change      |-> QRound1(scenario_pct),
                 Unhedged_INR    |-> scenario.unhedged_inr,
                 Hedged_INR      |-> scenario.hedged_inr,
                 Unhedged_USD    |-> scenario.unhedged_usd,
                 Hedged_USD      |-> scenario.hedged_usd,
                 Hedging_Benefit |-> QSub(scenario.hedged_inr, scenario.unhedged_inr),
                 new_rate        |-> scenario.rate] :
                  scenario \in {calculate_scenario(scenario_pct)}}) :
            scenario_pct \in {ScenarioPct(rate)}})

SpecificRow(rate) ==
    Only({Only({[USDINR_Rate     |-> rate,
                 INR_Change      |-> QRound1(scenario_pct),
                 Unhedged_INR    |-> scenario.unhedged_inr,
                 Hedged_INR      |-> scenario.hedged_inr,
                 Unhedged_USD    |-> scenario.unhedged_usd,
                 Hedged_USD      |-> scenario.hedged_usd,
                 Hedging_Benefit |-> QSub(scenario.hedged_inr, scenario.unhedged_inr),
                 new_rate        |-> scenario.rate] :
                  scenario \in {calculate_scenario(QNeg(scenario_pct))}}) :
            scenario_pct \in {ScenarioPct(rate)}})

SpecificRates ==
    /\ pc = "specific"
    /\ specific_data' = [i \in DOMAIN specific_rates |-> SpecificRow(specific_rates[i])]
    /\ pc' = "done"
    /\ UNCHANGED <<inputs, results, scenario_data, df_scenarios,
                   example_interest_inr, example_total_inr>>

Next ==
    \/ \E v \in InvestmentChoices : SetInvestment(v)
    \/ \E v \in TenureChoices : SetTenure(v)
    \/ \E v \in YieldChoices : SetYield(v)
    \/ \E v \in CompoundingChoices : SetCompounding(v)
    \/ \E v \in RateChoices : SetRate(v)
    \/ \E v \in MarginChoices : SetMargin(v)
    \/ \E v \in HedgingCostChoices : SetHedgingCost(v)
    \/ Calculate
    \/ SweepScenarios
    \/ PracticalExample
    \/ SpecificRates

Spec == Init /\ [][Next]_vars

TypeOK ==
    /\ pc \in {"calculate", "scenarios", "example", "specific", "done"}
    /\ investment_inr >= 1000
    /\ tenure_years \in 1..10

(***************************************************************************)
(* Properties.                                                             *)
(***************************************************************************)
\* the calculation of the current run is done
Calculated == pc \in {"scenarios", "example", "specific", "done"}
\* the scenario sweep of the current run is done
Swept == pc \in {"example", "specific", "done"}
\* the specific-rate table of the current run is done
Listed == pc = "done"

\* C1: in every row of the sweep [-10, -5, 0, 5, 10] and in every
\* specific-rate row (75, 85, 95) the hedged INR return is the baseline
\* actual_return_with_hedging, whatever the shift.
C1_HedgedInrLocked ==
    /\ Swept =>
          /\ Len(scenario_data) = Len(scenarios)
          /\ \A i \in DOMAIN scenario_data :
                /\ QEq(scenario_data[i].hedged_inr, actual_return_with_hedging)
                /\ QEq(df_scenarios[i].Hedged_Return_INR, actual_return_with_hedging)
          /\ \A i, j \in DOMAIN scenario_data :
                QEq(scenario_data[i].hedged_inr, scenario_data[j].hedged_inr)
    /\ Listed =>
          /\ Len(specific_data) = Len(specific_rates)
          /\ \A i \in DOMAIN specific_data :
                QEq(specific_data[i].Hedged_INR, actual_return_with_hedging)

\* C1 witness: a finished run with a non-zero hedging cost and compound
\* interest, whose eight rows carry a non-zero hedged return
C1_Witness ==
    /\ Listed
    /\ Len(scenario_data) = 5 /\ Len(specific_data) = 3
    /\ compounding = "Quarterly"
    /\ QLt(Zero, hedging_cost_pct)
    /\ QLt(Zero, scenario_data[1].hedged_inr)
    /\ ~QEq(scenario_data[1].unhedged_inr, scenario_data[5].unhedged_inr)

EndToEndInputs ==
    /\ investment_inr = 1000000
    /\ tenure_years = 3
    /\ QEq(yield_percent, QFrac(65, 10))
    /\ compounding = "Annually"
    /\ QEq(usdinr_rate, QInt(85))
    /\ margin_per_lot = 2150
    /\ QEq(hedging_cost_pct, Zero)

\* C2: with principal 1,000,000, tenure 3, yield 6.5% Annually, spot 85,
\* margin per lot 2150 and no annual hedging cost (margin-only), the run gives
\* interest 195,000, maturity 1,195,000, USD notional 1,000,000/85 (about
\* 11,764.71), 12 lots, margin 25,800 and net return with hedge 1,169,200.
C2_EndToEnd ==
    (Calculated /\ EndToEndInputs) =>
        /\ QEq(interest_earned, QInt(195000))
        /\ QEq(total_return_inr, QInt(1195000))
        /\ QEq(investment_usd, QFrac(1000000, 85))
        /\ QLe(QFrac(1176470, 100), investment_usd)
        /\ QLe(investment_usd, QFrac(1176471, 100))
        /\ num_lots = 12
        /\ total_margin_inr = 25800
        /\ QEq(total_hedging_cost, Zero)
        /\ QEq(actual_return_with_hedging, QInt(1169200))

\* C2 witness: the end-to-end inputs have been calculated
C2_Witness == Calculated /\ EndToEndInputs /\ num_lots = 12

\* C3 as stated: the net return is reduced under exactly one cost model, the
\* margin (with a zero hedging cost) or the annualized notional cost, never
\* both.
C3_Original ==
    Calculated =>
        \/ /\ QEq(total_hedging_cost, Zero)
           /\ QEq(actual_return_with_hedging,
                  QSub(total_return_inr, QInt(total_margin_inr)))
        \/ QEq(actual_return_with_hedging,
               QSub(total_return_inr, total_hedging_cost))

\* C3 amended: the net return with hedge is the maturity value less the
\* margin and less the annualized notional cost
\* investment_inr * hedging_cost_pct/100 * tenure_years; the cost is zero,
\* and the result is that of the margin-only model, exactly when
\* hedging_cost_pct is 0, and for a positive hedging_cost_pct both are
\* subtracted.
C3_BothDeducted ==
    Calculated =>
        LET margin_net == QSub(total_return_inr, QInt(total_margin_inr))
            cost_net   == QSub(total_return_inr, total_hedging_cost)
        IN  /\ total_margin_inr = num_lots * margin_per_lot
            /\ QEq(total_hedging_cost,
                   QMul(QMul(QInt(investment_inr), QDiv(hedging_cost_pct, QInt(100))),
                        QInt(tenure_years)))
            /\ QEq(actual_return_with_hedging, QSub(margin_net, total_hedging_cost))
            /\ QEq(hedging_cost_pct, Zero) =>
                  /\ QEq(total_hedging_cost, Zero)
                  /\ QEq(actual_return_with_hedging, margin_net)
            /\ QLt(Zero, hedging_cost_pct) =>
                  /\ QLt(Zero, total_hedging_cost)
                  /\ QLt(actual_return_with_hedging, margin_net)
                  /\ QLt(actual_return_with_hedging, cost_net)

\* C3 witness: a calculation with a positive annual hedging cost, in which
\* margin and cost are both taken off the maturity value
C3_Witness ==
    /\ Calculated
    /\ QLt(Zero, hedging_cost_pct)
    /\ total_margin_inr > 0
    /\ QLt(Zero, total_hedging_cost)
    /\ QLt(actual_return_with_hedging, QSub(total_return_inr, QInt(total_margin_inr)))

\* notional amounts, in units of MaxNotionalStep dollars, on which the lot
\* sizing is also evaluated directly
MaxNotionalUnits == 30
MaxNotionalStep == 100

CeilingPolicy(usd, lots) ==
    LET coveredUsd   == QInt(lots * USDINR_LOT_SIZE)
        uncoveredUsd == IF QLt(coveredUsd, usd) THEN QSub(usd, coveredUsd) ELSE Zero
    IN  /\ lots >= 0
        /\ QLe(usd, coveredUsd)
        /\ \A m \in 0..lots : QLe(usd, QInt(m * USDINR_LOT_SIZE)) => m = lots
        /\ QEq(uncoveredUsd, Zero)
        /\ QLt(QSub(coveredUsd, usd), QInt(USDINR_LOT_SIZE))

\* C4: the number of lots is the least n >= 0 with n * 1000 >= USD notional,
\* so the covered amount reaches the notional, nothing is uncovered and the
\* over-hedge is less than one lot; a notional of 1100 needs 2 lots (2000).
C4_CeilingLots ==
    /\ Calculated =>
          /\ CeilingPolicy(investment_usd, num_lots)
          /\ QEq(investment_usd, QInt(1100)) => num_lots = 2
    /\ \A u \in 0..MaxNotionalUnits :
          CeilingPolicy(QInt(u * MaxNotionalStep), NumLots(QInt(u * MaxNotionalStep)))
    /\ NumLots(QInt(1100)) = 2
    /\ NumLots(Zero) = 0

\* C4 witness: investment 93,500 at 85 is a notional of 1100, sized at 2 lots
C4_Witness ==
    /\ Calculated
    /\ QEq(investment_usd, QInt(1100))
    /\ num_lots = 2
    /\ total_margin_inr = 2 * margin_per_lot

\* C5: the scenario with shift 0 has the original spot rate as implied rate
\* and the baseline maturity value (principal + interest) as unhedged INR
\* return.
C5_ZeroShift ==
    Swept =>
        \A i \in DOMAIN scenario_data :
            scenarios[i] = 0 =>
                /\ QEq(scenario_data[i].rate, usdinr_rate)
                /\ QEq(df_scenarios[i].FX_Rate, usdinr_rate)
                /\ QEq(scenario_data[i].unhedged_inr, total_return_inr)
                /\ QEq(scenario_data[i].unhedged_inr,
                       QAdd(QInt(investment_inr), interest_earned))

\* C5 witness: a sweep whose zero-shift row exists, with a spot rate that
\* does not divide the principal and compound interest
C5_Witness ==
    /\ Swept
    /\ scenarios[3] = 0 /\ Len(scenario_data) = 5
    /\ QEq(usdinr_rate, QInt(70))
    /\ compounding = "Monthly"
    /\ QLt(Zero, interest_earned)
    /\ QEq(scenario_data[3].unhedged_inr, total_return_inr)

\* C6: the maturity value is at least the principal (interest >= 0) for every
\* compounding frequency, and a zero yield leaves the principal unchanged
\* under the simple and under the compound convention.
C6_NoLoss ==
    /\ Calculated =>
          /\ QLe(Zero, interest_earned)
          /\ QLe(QInt(investment_inr), total_return_inr)
          /\ QEq(yield_percent, Zero) =>
                /\ QEq(interest_earned, Zero)
                /\ QEq(total_return_inr, QInt(investment_inr))
    /\ QEq(SimpleInterest(investment_inr, Zero, tenure_years), Zero)
    /\ \A c \in DOMAIN compounding_freq_map :
          QEq(CompoundInterest(investment_inr, Zero, compounding_freq_map[c],
                               tenure_years), Zero)

\* C6 witness: a zero-yield run with monthly compounding
C6_Witness ==
    /\ Calculated
    /\ QEq(yield_percent, Zero)
    /\ compounding = "Monthly"
    /\ n = 12
    /\ QEq(total_return_inr, QInt(investment_inr))

\* C7: the compound formula with n = 1 agrees with the simple-annual formula
\* (the one applied for 'Annually') when tenure <= 1 and exceeds it when
\* tenure > 1 and the yield is positive; 85000 at 10% for 1 year is 93500
\* under both, as in the practical example.
C7_Conventions ==
    LET P   == QInt(investment_inr)
        cmp == QAdd(P, CompoundInterest(investment_inr, yield_percent,
                                        compounding_freq_map["Annually"], tenure_years))
        smp == QAdd(P, SimpleInterest(investment_inr, yield_percent, tenure_years))
    IN  /\ tenure_years <= 1 => QEq(cmp, smp)
        /\ (tenure_years > 1 /\ QLt(Zero, yield_percent)) => QLt(smp, cmp)
        /\ (Calculated /\ compounding = "Annually") => QEq(total_return_inr, smp)
        /\ QEq(QAdd(QInt(85000), CompoundInterest(85000, QInt(10), 1, 1)), QInt(93500))
        /\ QEq(QAdd(QInt(85000), SimpleInterest(85000, QInt(10), 1)), QInt(93500))
        /\ pc \in {"specific", "done"} => QEq(example_total_inr, QInt(93500))

\* C7 witness: an 'Annually' run over more than one year with a positive
\* yield, where the applied simple formula is below the compound one
C7_Witness ==
    /\ Calculated
    /\ compounding = "Annually"
    /\ tenure_years > 1
    /\ QLt(Zero, yield_percent)
    /\ QLt(total_return_inr,
           QAdd(QInt(investment_inr),
                CompoundInterest(investment_inr, yield_percent, 1, tenure_years)))

\* the (reported change, rate) pairs of the two scenario tables
ReportedRows ==
    {<<QInt(df_scenarios[i].INR_Change), df_scenarios[i].FX_Rate>> :
        i \in DOMAIN df_scenarios}
    \cup
    {<<specific_data[i].INR_Change, QInt(specific_data[i].USDINR_Rate)>> :
        i \in DOMAIN specific_data}

\* 1 when the rate moves with the sign of the reported change, -1 when it
\* moves against it, 0 when there is no change
Direction(row) == QSign(row[1]) * QCmp(row[2], usdinr_rate)

\* C8: every row of the sweep table and of the specific-rate table relates
\* its reported change to its rate in the same way: a positive reported
\* change moves the rate in the same direction in all rows.
C8_OneConvention ==
    Listed =>
        \A a, b \in ReportedRows :
            (Direction(a) # 0 /\ Direction(b) # 0) => Direction(a) = Direction(b)

\* C9: at least one lot is required and the net return with hedge is
\* strictly below the unhedged maturity value, in amount and in percent.
C9_HedgeCosts ==
    Calculated =>
        /\ num_lots >= 1
        /\ total_margin_inr >= 1000
        /\ QLt(actual_return_with_hedging, total_return_inr)
        /\ QLt(return_pct_with_hedging, return_pct_without_hedging)

\* C9 witness: the smallest investment at the highest rate with no annual
\* hedging cost still needs one lot
C9_Witness ==
    /\ Calculated
    /\ investment_inr = 1000
    /\ QEq(usdinr_rate, QInt(100))
    /\ QEq(hedging_cost_pct, Zero)
    /\ margin_per_lot = 1000
    /\ num_lots = 1

\* C10: every scenario evaluation has a positive implied rate: a sweep row
\* has spot * (1 - shift/100), a specific-rate row has the rate R itself.
C10_PositiveRate ==
    /\ Swept =>
          \A i \in DOMAIN scenario_data :
              /\ QLt(Zero, scenario_data[i].rate)
              /\ QEq(scenario_data[i].rate,
                     QMul(usdinr_rate, QFrac(100 - scenarios[i], 100)))
    /\ Listed =>
          \A i \in DOMAIN specific_data :
              /\ QLt(Zero, specific_data[i].new_rate)
              /\ QEq(specific_data[i].new_rate, QInt(specific_rates[i]))

\* C10 witness: a finished run at the lowest spot rate, with the rows for
\* 75, 85 and 95 all away from the spot rate
C10_Witness ==
    /\ Listed
    /\ QEq(usdinr_rate, QInt(70))
    /\ Len(specific_data) = 3
    /\ QEq(specific_data[3].new_rate, QInt(95))
    /\ QLt(Zero, scenario_data[5].rate)

=============================================================================
